---- MODULE Spec2Model ----
(***************************************************************************)
(* Model of the URL analysis library: TldAnalyzer::extract (suffix         *)
(* classification), ComprehensiveUrlAnalyzer::analyze and                  *)
(* WhoisFormatter::format (embedded-domain harvesting).                    *)
(*                                                                         *)
(* A Rust String is a sequence of one-character strings, so that           *)
(* contains('.'), starts_with('%'), split, join and the byte order used    *)
(* by sort are computed, not assumed.  Option<T> is a record with a        *)
(* "some" flag; Result<T, E> is a record with an "ok" flag.                *)
(***************************************************************************)
EXTENDS Integers, Sequences, FiniteSets

VARIABLES
    analyses,            \* Vec<UrlAnalysis> collected by the caller
    include_subdomains,  \* WhoisFormatter.include_subdomains
    phase,               \* "collect" until format is called, then "formatted" (Ok) or "failed" (Err)
    domains,             \* the HashSet built by format
    output,              \* the String returned by format
    result,              \* outcome of the last analyze call
    host,                \* argument of the last TldAnalyzer::extract call
    tld,                 \* Result returned by the last TldAnalyzer::extract call
    inserted,            \* per worker, the insertions of its analysis made so far
    urls,                \* argument of the last analyze_urls call
    results              \* Vec returned by the last analyze_urls call

vars == <<analyses, include_subdomains, phase, domains, output, result, host, tld,
          inserted, urls, results>>

-----------------------------------------------------------------------------
(* Strings *)

\* Code point of a character (the alphabet the inputs are drawn from).
Code(c) ==
    CASE c = "\n" -> 10
      [] c = "%"  -> 37
      [] c = "."  -> 46
      [] c = "/"  -> 47
      [] c = ":"  -> 58
      [] c = "a"  -> 97
      [] c = "c"  -> 99
      [] c = "h"  -> 104
      [] c = "i"  -> 105
      [] c = "k"  -> 107
      [] c = "l"  -> 108
      [] c = "m"  -> 109
      [] c = "o"  -> 111
      [] c = "p"  -> 112
      [] c = "t"  -> 116
      [] c = "u"  -> 117
      [] c = "z"  -> 122

\* Option<T>
None == [some |-> FALSE, v |-> <<>>]
Some(x) == [some |-> TRUE, v |-> x]

\* Option::filter(|s| !s.is_empty())
FilterNonEmpty(o) == IF o.some /\ o.v # <<>> THEN o ELSE None

\* str::contains(char)
Contains(s, c) == \E n \in 1..Len(s) : s[n] = c

\* str::starts_with(char)
StartsWith(s, c) == Len(s) > 0 /\ s[1] = c

\* Index of the first occurrence of c in s, 0 when there is none.
IndexOf(s, c) ==
    IF Contains(s, c)
    THEN CHOOSE n \in 1..Len(s) : s[n] = c /\ \A m \in 1..(n - 1) : s[m] # c
    ELSE 0

\* str::split(char): "a..b" gives "a", "", "b"; "" gives one empty piece.
RECURSIVE Split(_, _)
Split(s, c) ==
    LET n == IndexOf(s, c) IN
    IF n = 0 THEN <<s>>
    ELSE <<SubSeq(s, 1, n - 1)>> \o Split(SubSeq(s, n + 1, Len(s)), c)

\* [String]::join(sep)
RECURSIVE Join(_, _)
Join(parts, sep) ==
    IF Len(parts) = 0 THEN <<>>
    ELSE IF Len(parts) = 1 THEN parts[1]
    ELSE parts[1] \o sep \o Join(Tail(parts), sep)

\* format!("{}.{}", x, y)
Dot(x, y) == x \o <<".">> \o y

\* String's Ord: lexicographic on code points, a proper prefix first.
RECURSIVE Less(_, _)
Less(s, t) ==
    IF Len(t) = 0 THEN FALSE
    ELSE IF Len(s) = 0 THEN TRUE
    ELSE IF s[1] = t[1] THEN Less(Tail(s), Tail(t))
    ELSE Code(s[1]) < Code(t[1])

-----------------------------------------------------------------------------
(* Suffix classification *)

La == <<"a">>
Lco == <<"c", "o">>
Luk == <<"u", "k">>
Lz == <<"z">>

\* The public-suffix table behind TldExtractor::new(TldOption::default()):
\* a single-label suffix and a multi-label suffix ending in it.
PublicSuffixTable == {Luk, Dot(Lco, Luk)}

\* Result<TldComponents, _>
TldOk(d, sd, sf) == [ok |-> TRUE, domain |-> d, subdomain |-> sd, suffix |-> sf]
TldErr == [ok |-> FALSE, domain |-> None, subdomain |-> None, suffix |-> None]

\* Positions i such that labels[i..] joined by "." is a registered suffix.
SuffixStarts(labels) ==
    {i \in 1..Len(labels) :
        Join(SubSeq(labels, i, Len(labels)), <<".">>) \in PublicSuffixTable}

\* The smallest such position: the longest matching suffix; 0 when none matches.
LongestSuffixStart(labels) ==
    LET m == SuffixStarts(labels) IN
    IF m = {} THEN 0 ELSE CHOOSE i \in m : \A j \in m : i <= j

\* TldExtractor::extract: the longest-match rule.  No match, or a suffix that
\* is the whole host, gives no field; otherwise the label left of the suffix
\* is the domain and the labels left of it, joined, are the subdomain (the
\* empty string when none remain).
TldExtractor_extract(h) ==
    LET labels == Split(h, ".")
        n == Len(labels)
        i == LongestSuffixStart(labels)
    IN  IF i <= 1 THEN TldOk(None, None, None)
        ELSE TldOk(Some(labels[i - 1]),
                   Some(Join(SubSeq(labels, 1, i - 2), <<".">>)),
                   Some(Join(SubSeq(labels, i, n), <<".">>)))

\* extract without the filter that makes an empty field absent.
extract_unfiltered(h) == TldExtractor_extract(h)

\* extract that reports a host without a suffix as an error.
extract_strict(h) ==
    LET extracted == TldExtractor_extract(h) IN
    IF ~extracted.suffix.some THEN TldErr
    ELSE TldOk(FilterNonEmpty(extracted.domain),
               FilterNonEmpty(extracted.subdomain),
               FilterNonEmpty(extracted.suffix))

\* extract that gives the whole host as the domain when the extractor found
\* no domain.
extract_hostdomain(h) ==
    LET extracted == TldExtractor_extract(h) IN
    TldOk(IF extracted.domain.some THEN FilterNonEmpty(extracted.domain) ELSE Some(h),
          FilterNonEmpty(extracted.subdomain),
          FilterNonEmpty(extracted.suffix))

\* extract that reports a host that is a registered suffix as that suffix.
extract_baresuffix(h) ==
    LET extracted == TldExtractor_extract(h) IN
    IF h \in PublicSuffixTable THEN TldOk(None, None, Some(h))
    ELSE TldOk(FilterNonEmpty(extracted.domain),
               FilterNonEmpty(extracted.subdomain),
               FilterNonEmpty(extracted.suffix))

\* extract that never reports a subdomain.
extract_nosubdomain(h) ==
    LET extracted == TldExtractor_extract(h) IN
    TldOk(FilterNonEmpty(extracted.domain), None, FilterNonEmpty(extracted.suffix))

\* TldAnalyzer::extract
extract(h) ==
    LET extracted == TldExtractor_extract(h) IN
    IF ~extracted.ok THEN TldErr
    ELSE TldOk(FilterNonEmpty(extracted.domain),
               FilterNonEmpty(extracted.subdomain),
               FilterNonEmpty(extracted.suffix))

-----------------------------------------------------------------------------
(* URL parsing of a query-parameter value *)

Letters == {"a", "c", "h", "i", "k", "l", "m", "o", "p", "t", "u", "z"}

\* Schemes the URL standard calls special among those of the alphabet.
SpecialSchemes == {<<"h", "t", "t", "p">>}

\* Result<Url, ParseError> reduced to what format reads: Url::host_str().
UrlOk(h) == [ok |-> TRUE, host |-> h]
UrlErr == [ok |-> FALSE, host |-> None]

\* Length of the scheme: s[1] a letter, then letters or ".", then ":".
\* 0 when the string has no scheme.
SchemeLen(s) ==
    LET n == IndexOf(s, ":") IN
    IF n > 1 /\ s[1] \in Letters
       /\ \A m \in 2..(n - 1) : s[m] \in Letters \cup {"."}
    THEN n - 1 ELSE 0

\* Remove the leading "/" characters.
RECURSIVE SkipSlashes(_)
SkipSlashes(s) == IF StartsWith(s, "/") THEN SkipSlashes(Tail(s)) ELSE s

\* The authority's host: up to the first "/"; a ":" starts the port, which
\* must be empty as the alphabet has no digit; "%" is not a host character.
ParseHost(s) ==
    LET e == IndexOf(s, "/")
        auth == IF e = 0 THEN s ELSE SubSeq(s, 1, e - 1)
        c == IndexOf(auth, ":")
        name == IF c = 0 THEN auth ELSE SubSeq(auth, 1, c - 1)
        port == IF c = 0 THEN <<>> ELSE SubSeq(auth, c + 1, Len(auth))
    IN  IF name = <<>> \/ port # <<>> \/ Contains(name, "%") THEN UrlErr
        ELSE UrlOk(Some(name))

\* Url::parse(value) followed by host_str().  A string without a scheme is a
\* relative URL without a base: an error.  A special scheme is followed by
\* an authority; any other scheme followed by no "//" has an opaque path
\* and no host.
UrlParse(value) ==
    LET k == SchemeLen(value)
        scheme == SubSeq(value, 1, k)
        rest == SubSeq(value, k + 2, Len(value))
    IN  IF k = 0 THEN UrlErr
        ELSE IF scheme \in SpecialSchemes THEN ParseHost(SkipSlashes(rest))
        ELSE IF Len(rest) >= 2 /\ rest[1] = "/" /\ rest[2] = "/"
             THEN ParseHost(SubSeq(rest, 3, Len(rest)))
        ELSE UrlOk(None)

-----------------------------------------------------------------------------
(* Analysis of one URL *)

NoTld == [domain |-> None, subdomain |-> None, suffix |-> None]

\* UrlParser::parse.  The input u is what the url crate makes of the URL
\* string: whether it parses, its host, its decoded query pairs and the
\* pieces of its path between "/".  Empty path pieces are dropped.
UrlParser_parse(u) ==
    IF ~u.valid THEN [ok |-> FALSE]
    ELSE [ok |-> TRUE,
          components |->
              [host |-> u.host,
               query_params |-> u.query,
               path_segments |-> SelectSeq(u.path, LAMBDA p : p # <<>>)]]

\* ComprehensiveUrlAnalyzer::analyze: either error is returned by "?".
analyze(u) ==
    LET parsed == UrlParser_parse(u) IN
    IF ~parsed.ok THEN [ok |-> FALSE, error |-> "parse_error"]
    ELSE LET h == parsed.components.host
             t == IF h.some THEN extract(h.v) ELSE TldOk(None, None, None)
         IN  IF ~t.ok THEN [ok |-> FALSE, error |-> "tld_error"]
             ELSE [ok |-> TRUE,
                   analysis |->
                       [url_components |-> parsed.components,
                        tld_components |->
                            [domain |-> t.domain,
                             subdomain |-> t.subdomain,
                             suffix |-> t.suffix]]]

\* analyze_url
analyze_url(u) == analyze(u)

\* analyze_urls that stops at the first URL whose analysis is an error.
RECURSIVE analyze_urls_failfast(_)
analyze_urls_failfast(us) ==
    IF us = <<>> THEN <<>>
    ELSE IF ~analyze(Head(us)).ok THEN <<analyze(Head(us))>>
    ELSE <<analyze(Head(us))>> \o analyze_urls_failfast(Tail(us))

\* analyze_urls: urls.iter().map(|url| analyzer.analyze(url)).collect()
analyze_urls(us) == [k \in 1..Len(us) |-> analyze(us[k])]

-----------------------------------------------------------------------------
(* WhoisFormatter::format *)

\* The primary host without the fallback to the raw host.
HostDomains_nofallback(a, sub) ==
    LET h == a.url_components.host
        t == a.tld_components
    IN  IF ~h.some THEN {}
        ELSE IF sub THEN {h.v}
        ELSE IF t.domain.some /\ t.suffix.some
             THEN {Dot(t.domain.v, t.suffix.v)}
        ELSE {}

\* The primary host of an analysis.
HostDomains(a, sub) ==
    LET h == a.url_components.host
        t == a.tld_components
    IN  IF ~h.some THEN {}
        ELSE IF sub THEN {h.v}
        ELSE IF t.domain.some /\ t.suffix.some
             THEN {Dot(t.domain.v, t.suffix.v)}
        ELSE {h.v}

\* A classification's registrable domain, and its full name.
Registrable(t) ==
    IF t.ok /\ t.domain.some /\ t.suffix.some
    THEN {Dot(t.domain.v, t.suffix.v)} ELSE {}
FullName(t) ==
    IF t.ok /\ t.subdomain.some /\ t.domain.some /\ t.suffix.some
    THEN {Dot(t.subdomain.v, Dot(t.domain.v, t.suffix.v))}
    ELSE Registrable(t)

\* A query value whose bare-hostname branch inserts the value itself when
\* the classification gives no registrable domain.
QueryDomains_rawbare(value, sub) ==
    LET embedded == UrlParse(value) IN
    IF embedded.ok
    THEN IF ~embedded.host.some THEN {}
         ELSE IF sub THEN {embedded.host.v}
         ELSE Registrable(extract(embedded.host.v))
    ELSE IF Contains(value, ".") /\ ~StartsWith(value, "%")
    THEN LET t == extract(value) IN
         IF Registrable(t) = {} THEN {value}
         ELSE IF sub THEN FullName(t) ELSE Registrable(t)
    ELSE {}

\* A query value whose bare-hostname branch, in subdomain mode, inserts the
\* registrable domain only.
QueryDomains_nosubdomain(value, sub) ==
    LET embedded == UrlParse(value) IN
    IF embedded.ok
    THEN IF ~embedded.host.some THEN {}
         ELSE IF sub THEN {embedded.host.v}
         ELSE Registrable(extract(embedded.host.v))
    ELSE IF Contains(value, ".") /\ ~StartsWith(value, "%")
    THEN Registrable(extract(value))
    ELSE {}

\* A query value without the guard on a leading "%".
QueryDomains_noguard(value, sub) ==
    LET embedded == UrlParse(value) IN
    IF embedded.ok
    THEN IF ~embedded.host.some THEN {}
         ELSE IF sub THEN {embedded.host.v}
         ELSE Registrable(extract(embedded.host.v))
    ELSE IF Contains(value, ".")
    THEN IF sub THEN FullName(extract(value)) ELSE Registrable(extract(value))
    ELSE {}

\* One query-parameter value.
QueryDomains(value, sub) ==
    LET embedded == UrlParse(value) IN
    IF embedded.ok
    THEN IF ~embedded.host.some THEN {}
         ELSE IF sub THEN {embedded.host.v}
         ELSE LET t == extract(embedded.host.v) IN
              IF ~t.ok THEN {embedded.host.v}
              ELSE IF t.domain.some /\ t.suffix.some
                   THEN {Dot(t.domain.v, t.suffix.v)}
              ELSE {}
    ELSE IF Contains(value, ".") /\ ~StartsWith(value, "%")
    THEN LET t == extract(value) IN
         IF ~t.ok THEN {}
         ELSE IF sub
              THEN IF t.subdomain.some /\ t.domain.some /\ t.suffix.some
                   THEN {Dot(t.subdomain.v, Dot(t.domain.v, t.suffix.v))}
                   ELSE IF t.domain.some /\ t.suffix.some
                        THEN {Dot(t.domain.v, t.suffix.v)}
                   ELSE {}
         ELSE IF t.domain.some /\ t.suffix.some
              THEN {Dot(t.domain.v, t.suffix.v)}
         ELSE {}
    ELSE {}

\* A path segment without the guard on a leading "%".
SegmentDomains_noguard(segment, sub) ==
    IF Contains(segment, ".")
    THEN IF sub THEN {segment} ELSE Registrable(extract(segment))
    ELSE {}

\* A path segment inserted as it is in either mode.
SegmentDomains_verbatim(segment, sub) ==
    IF Contains(segment, ".") /\ ~StartsWith(segment, "%")
    THEN {segment}
    ELSE {}

\* One path segment.
SegmentDomains(segment, sub) ==
    IF Contains(segment, ".") /\ ~StartsWith(segment, "%")
    THEN IF sub THEN {segment}
         ELSE LET t == extract(segment) IN
              IF t.ok /\ t.domain.some /\ t.suffix.some
              THEN {Dot(t.domain.v, t.suffix.v)}
              ELSE {}
    ELSE {}

\* One iteration of the loop over the analyses.
\* An analysis without a host is passed over.
AnalysisDomains_needhost(a, sub) ==
    LET q == a.url_components.query_params
        p == a.url_components.path_segments
    IN  IF ~a.url_components.host.some THEN {}
        ELSE HostDomains(a, sub)
             \cup UNION {QueryDomains(q[k][2], sub) : k \in 1..Len(q)}
             \cup UNION {SegmentDomains(p[k], sub) : k \in 1..Len(p)}

\* A value that is neither a URL nor a candidate hostname ends the work on
\* its analysis, which then contributes nothing.
AnalysisDomains_abort(a, sub) ==
    LET q == a.url_components.query_params
        p == a.url_components.path_segments
    IN  IF \E k \in 1..Len(q) : ~UrlParse(q[k][2]).ok /\ QueryDomains(q[k][2], sub) = {}
        THEN {}
        ELSE HostDomains(a, sub)
             \cup UNION {QueryDomains(q[k][2], sub) : k \in 1..Len(q)}
             \cup UNION {SegmentDomains(p[k], sub) : k \in 1..Len(p)}

AnalysisDomains(a, sub) ==
    LET q == a.url_components.query_params
        p == a.url_components.path_segments
    IN  HostDomains(a, sub)
        \cup UNION {QueryDomains(q[k][2], sub) : k \in 1..Len(q)}
        \cup UNION {SegmentDomains(p[k], sub) : k \in 1..Len(p)}

\* A loop whose every pass replaces the set by the strings of its analysis.
Harvest_lastwins(batch, sub) ==
    IF batch = <<>> THEN {} ELSE AnalysisDomains(batch[Len(batch)], sub)

\* The HashSet after the loop.
Harvest(batch, sub) == UNION {AnalysisDomains(batch[k], sub) : k \in 1..Len(batch)}

\* The orders in which a HashSet may be iterated.
RECURSIVE Orders(_)
Orders(S) ==
    IF S = {} THEN {<<>>}
    ELSE UNION {{<<x>> \o o : o \in Orders(S \ {x})} : x \in S}

\* Insert x into a sorted vector, after the elements not greater than it.
RECURSIVE Insert(_, _)
Insert(x, v) ==
    IF Len(v) = 0 THEN <<x>>
    ELSE IF Less(x, v[1]) THEN <<x>> \o v
    ELSE <<v[1]>> \o Insert(x, Tail(v))

\* The vector left as the HashSet gave it.
Sort_skipped(v) == v

\* Vec<String>::sort
RECURSIVE Sort(_)
Sort(v) == IF Len(v) = 0 THEN <<>> ELSE Insert(v[Len(v)], Sort(SubSeq(v, 1, Len(v) - 1)))

\* The insertions of the loop in the order it makes them, as a vector that
\* keeps every one of them.
AsVec(S) == IF S = {} THEN <<>> ELSE <<CHOOSE x \in S : TRUE>>
RECURSIVE ValueInsertions(_, _, _)
ValueInsertions(q, k, sub) ==
    IF k > Len(q) THEN <<>>
    ELSE AsVec(QueryDomains(q[k][2], sub)) \o ValueInsertions(q, k + 1, sub)
RECURSIVE SegmentInsertions(_, _, _)
SegmentInsertions(p, k, sub) ==
    IF k > Len(p) THEN <<>>
    ELSE AsVec(SegmentDomains(p[k], sub)) \o SegmentInsertions(p, k + 1, sub)
RECURSIVE Insertions(_, _, _)
Insertions(batch, k, sub) ==
    IF k > Len(batch) THEN <<>>
    ELSE AsVec(HostDomains(batch[k], sub))
         \o ValueInsertions(batch[k].url_components.query_params, 1, sub)
         \o SegmentInsertions(batch[k].url_components.path_segments, 1, sub)
         \o Insertions(batch, k + 1, sub)

\* The strings the loop body inserts for one analysis, in its order.
AnalysisInsertions(a, sub) == Insertions(<<a>>, 1, sub)

\* The strings collected in a Vec instead of a HashSet.
Collected_vec(batch, sub) == {Insertions(batch, 1, sub)}

\* The vectors that collecting the HashSet of the batch may give.
Collected(batch, sub) == Orders(Harvest(batch, sub))

\* Result<String, fmt::Error>
FormatOk(text) == [ok |-> TRUE, text |-> text]
FormatErr == [ok |-> FALSE, text |-> <<>>]

\* format that returns an error for a query value that is no URL.
format_strict(batch, sub) ==
    IF \E k \in 1..Len(batch) :
           \E j \in 1..Len(batch[k].url_components.query_params) :
               ~UrlParse(batch[k].url_components.query_params[j][2]).ok
    THEN {FormatErr}
    ELSE {FormatOk(Join(Sort(v), <<"\n">>)) : v \in Collected(batch, sub)}

\* The values format may return for a batch: the sorted vector joined by
\* "\n", always Ok.
format(batch, sub) ==
    {FormatOk(Join(Sort(v), <<"\n">>)) : v \in Collected(batch, sub)}

\* format of a single analysis: self.format(&vec![analysis.clone()])
format_one(a, sub) == format(<<a>>, sub)

\* str::lines: the pieces between "\n", without a final empty piece.
Lines(s) ==
    LET p == Split(s, "\n") IN
    IF p[Len(p)] = <<>> THEN SubSeq(p, 1, Len(p) - 1) ELSE p

-----------------------------------------------------------------------------
(* Inputs *)

MaxBatch == 2       \* analyses in one batch
MaxFragments == 1   \* query parameters plus path segments of one URL
MaxLabels == 4      \* labels of a host handed to extract
MaxUrls == 3        \* URLs handed to one analyze_urls call

Http(h) == <<"h", "t", "t", "p", ":", "/", "/">> \o h
Mailto(h) == <<"m", "a", "i", "l", "t", "o", ":">> \o h
Pct(h) == <<"%">> \o h
Key == <<"k">>

Url(h, values, pieces) ==
    [valid |-> TRUE, host |-> h,
     query |-> [k \in 1..Len(values) |-> <<Key, values[k]>>],
     path |-> pieces]

InvalidUrl == [valid |-> FALSE, host |-> None, query |-> <<>>, path |-> <<>>]

\* The URLs of a batch: hosts and fragments that share registrable domains,
\* in no particular order.
Urls ==
    { Url(Some(Dot(Lz, Luk)), <<>>, <<>>),
      Url(Some(Dot(La, Dot(Lz, Luk))), <<Http(Dot(La, Luk))>>, <<Dot(La, Luk)>>),
      Url(Some(Dot(La, Luk)), <<Dot(La, Dot(La, Luk))>>, <<<<>>, Dot(La, Dot(Lco, Luk))>>),
      Url(None, <<Pct(Dot(La, Luk))>>, <<Dot(Lco, Luk)>>),
      Url(Some(La), <<Mailto(Dot(La, Luk))>>, <<Dot(Lz, La)>>),
      Url(Some(Dot(Lco, Dot(Lz, Luk))), <<Http(Dot(Lz, Dot(Lco, Luk)))>>, <<Pct(Lz)>>),
      Url(Some(Dot(La, Dot(Lco, Luk))), <<Lz, Dot(Lz, Luk)>>, <<>>),
      InvalidUrl }

\* Host shapes: no dot, a bare suffix, no known suffix, domain and suffix,
\* a bare multi-label suffix, subdomain, multi-label suffix.
Shapes ==
    { La, Luk, Dot(La, La), Dot(La, Luk), Dot(Lco, Luk),
      Dot(La, Dot(La, Luk)), Dot(La, Dot(Lco, Luk)) }

\* A bare string may also start with an empty label: .a.uk
BareShapes == Shapes \cup {Dot(<<>>, Dot(La, Luk))}

Values == BareShapes \cup {Http(h) : h \in Shapes} \cup {Mailto(h) : h \in Shapes}
          \cup {Pct(h) : h \in Shapes}

Pieces == BareShapes \cup {Mailto(h) : h \in Shapes} \cup {Pct(h) : h \in Shapes}
          \cup {<<>>}

SeqsOf(S, n) == [1..n -> S]

\* The query values and path pieces of one URL: MaxFragments in all.
Fragments ==
    UNION {SeqsOf(Values, n) \X SeqsOf(Pieces, m) :
              <<n, m>> \in {nm \in (0..MaxFragments) \X (0..MaxFragments) :
                               nm[1] + nm[2] <= MaxFragments}}

\* One URL with any host shape or none and at most MaxFragments fragments.
FragmentUrls ==
    { Url(h, f[1], f[2]) :
        h \in {None} \cup {Some(x) : x \in Shapes}, f \in Fragments }

\* Hosts of at most MaxLabels labels, the empty label included.
ClassifyLabels == {<<>>, La, Lco, Luk}
ClassifyHosts ==
    {Join(l, <<".">>) : l \in UNION {SeqsOf(ClassifyLabels, n) : n \in 1..MaxLabels}}

-----------------------------------------------------------------------------
(* Operations *)

Init ==
    /\ analyses = <<>>
    /\ include_subdomains = FALSE
    /\ phase = "collect"
    /\ domains = {}
    /\ output = <<>>
    /\ result = "none"
    /\ host = None
    /\ tld = None
    /\ inserted = <<>>
    /\ urls = <<>>
    /\ results = <<>>

\* analyzer.analyze(url), the analysis pushed to the batch when it is Ok.
Analyze(u) ==
    /\ phase = "collect"
    /\ Len(analyses) < MaxBatch
    /\ LET r == analyze(u) IN
        /\ result' = IF r.ok THEN "ok" ELSE r.error
        /\ analyses' = IF r.ok THEN Append(analyses, r.analysis) ELSE analyses
    /\ IF u.valid /\ u.host.some
       THEN host' = u.host /\ tld' = Some(extract(u.host.v))
       ELSE UNCHANGED <<host, tld>>
    /\ UNCHANGED <<include_subdomains, phase, domains, output, inserted, urls, results>>

\* WhoisFormatter::with_subdomains
WithSubdomains ==
    /\ phase = "collect"
    /\ ~include_subdomains
    /\ include_subdomains' = TRUE
    /\ UNCHANGED <<analyses, phase, domains, output, result, host, tld,
                   inserted, urls, results>>

\* WhoisFormatter::format on the batch
Format ==
    /\ phase = "collect"
    /\ \E r \in format(analyses, include_subdomains) :
        /\ output' = r.text
        /\ phase' = IF r.ok THEN "formatted" ELSE "failed"
    /\ domains' = Harvest(analyses, include_subdomains)
    /\ UNCHANGED <<analyses, include_subdomains, result, host, tld,
                   inserted, urls, results>>

\* A direct call of TldAnalyzer::extract
Classify(h) ==
    /\ host' = Some(h)
    /\ tld' = Some(extract(h))
    /\ UNCHANGED <<analyses, include_subdomains, phase, domains, output, result,
                   inserted, urls, results>>

Next ==
    \/ \E u \in Urls : Analyze(u)
    \/ WithSubdomains
    \/ Format

Spec == Init /\ [][Next]_vars

\* format on a batch of one URL, over every fragment.
NextFragments ==
    \/ \E u \in FragmentUrls : analyses = <<>> /\ Analyze(u)
    \/ WithSubdomains
    \/ Format

SpecFragments == Init /\ [][NextFragments]_vars

\* One call of extract, directly or through analyze, over every host.
NextClassify ==
    \/ \E h \in ClassifyHosts : tld = None /\ Classify(h)
    \/ \E h \in ClassifyHosts : tld = None /\ Analyze(Url(Some(h), <<>>, <<>>))

SpecClassify == Init /\ [][NextClassify]_vars

\* The loop of format run by one worker per analysis on a shared set: the
\* set is created, every worker is at the start of its analysis.
Begin ==
    /\ phase = "collect"
    /\ analyses # <<>>
    /\ phase' = "harvesting"
    /\ domains' = {}
    /\ inserted' = [k \in 1..Len(analyses) |-> 0]
    /\ UNCHANGED <<analyses, include_subdomains, output, result, host, tld, urls, results>>

\* Worker k makes the next insertion of the loop body for its analysis.
Work(k) ==
    /\ phase = "harvesting"
    /\ LET todo == AnalysisInsertions(analyses[k], include_subdomains) IN
        /\ inserted[k] < Len(todo)
        /\ domains' = domains \cup {todo[inserted[k] + 1]}
    /\ inserted' = [inserted EXCEPT ![k] = @ + 1]
    /\ UNCHANGED <<analyses, include_subdomains, phase, output, result, host, tld,
                   urls, results>>

\* Every worker is done: the set is collected, sorted and joined.
Finish ==
    /\ phase = "harvesting"
    /\ \A k \in 1..Len(analyses) :
           inserted[k] = Len(AnalysisInsertions(analyses[k], include_subdomains))
    /\ \E order \in Orders(domains) : output' = Join(Sort(order), <<"\n">>)
    /\ phase' = "formatted"
    /\ UNCHANGED <<analyses, include_subdomains, domains, result, host, tld,
                   inserted, urls, results>>

NextWorkers ==
    \/ \E u \in Urls : Analyze(u)
    \/ WithSubdomains
    \/ Begin
    \/ \E k \in 1..Len(analyses) : Work(k)
    \/ Finish

SpecWorkers == Init /\ [][NextWorkers]_vars

\* A call of analyze_urls
AnalyzeUrls(us) ==
    /\ urls' = us
    /\ results' = analyze_urls(us)
    /\ UNCHANGED <<analyses, include_subdomains, phase, domains, output, result,
                   host, tld, inserted>>

\* One call of analyze_urls over every sequence of at most MaxUrls URLs.
NextUrls ==
    \E us \in UNION {SeqsOf(Urls, n) : n \in 0..MaxUrls} :
        urls = <<>> /\ results = <<>> /\ AnalyzeUrls(us)

SpecUrls == Init /\ [][NextUrls]_vars

-----------------------------------------------------------------------------
(* Claims about the classification *)

\* The labels of the host of the last extract call, and where its longest
\* registered suffix starts.
HostLabels == Split(host.v, ".")
SuffixAt == LongestSuffixStart(HostLabels)
JoinedLabels(i, j) == Join(SubSeq(HostLabels, i, j), <<".">>)

-----------------------------------------------------------------------------
(* Claims about format *)

Formatted == phase = "formatted"

\* The query values and the path segments of the batch.
BatchValues ==
    UNION {{analyses[k].url_components.query_params[j][2] :
               j \in 1..Len(analyses[k].url_components.query_params)} :
           k \in 1..Len(analyses)}
BatchSegments ==
    UNION {{analyses[k].url_components.path_segments[j] :
               j \in 1..Len(analyses[k].url_components.path_segments)} :
           k \in 1..Len(analyses)}

\* The batch is one analysis without a host whose only fragment is the
\* query value v, or the path segment v.
OnlyValue(v) ==
    /\ Len(analyses) = 1
    /\ ~analyses[1].url_components.host.some
    /\ analyses[1].url_components.query_params = <<<<Key, v>>>>
    /\ analyses[1].url_components.path_segments = <<>>
OnlySegment(v) ==
    /\ Len(analyses) = 1
    /\ ~analyses[1].url_components.host.some
    /\ analyses[1].url_components.query_params = <<>>
    /\ analyses[1].url_components.path_segments = <<v>>

\* The value reaches the bare-hostname branch as the code decides it: it does
\* not parse as a URL, contains "." and does not begin with "%".
BareCandidate(v) == ~UrlParse(v).ok /\ Contains(v, ".") /\ ~StartsWith(v, "%")

\* C1: the lines of the output of format are in strictly ascending
\* lexicographic order, so the output is sorted and no string is on two
\* lines, even when several analyses or fragments contribute the same string.
C1_SortedLines ==
    Formatted =>
        LET l == Lines(output) IN
        \A k \in 1..(Len(l) - 1) : Less(l[k], l[k + 1])

\* Two analyses of the batch contributed a common string and the output has
\* three lines or more.
C1_Witness ==
    /\ Formatted
    /\ Len(Lines(output)) >= 3
    /\ Len(analyses) = 2
    /\ AnalysisDomains(analyses[1], include_subdomains)
           \cap AnalysisDomains(analyses[2], include_subdomains) # {}
    /\ analyses[1] # analyses[2]

\* What C2 says the primary host h with classification t contributes.
PrimaryExpected(h, t, sub) ==
    IF sub THEN h
    ELSE IF t.domain.some /\ t.suffix.some THEN Dot(t.domain.v, t.suffix.v)
    ELSE h

\* C2: the primary host of an analysis contributes exactly one string: the
\* raw host in subdomain mode; otherwise domain.suffix when tld_components
\* has both, and the raw host when either is absent.
C2_PrimaryHost ==
    Formatted =>
        \A k \in 1..Len(analyses) :
            LET a == analyses[k]
                e == PrimaryExpected(a.url_components.host.v, a.tld_components,
                                     include_subdomains)
            IN  a.url_components.host.some =>
                    /\ HostDomains(a, include_subdomains) = {e}
                    /\ e \in domains
                    /\ (a.url_components.query_params = <<>>
                        /\ a.url_components.path_segments = <<>>) => domains = {e}

\* Outside subdomain mode, the host a.a, which has no registered suffix, was
\* inserted as it is.
C2_Witness ==
    /\ Formatted /\ ~include_subdomains /\ Len(analyses) = 1
    /\ analyses[1].url_components.host = Some(Dot(La, La))
    /\ analyses[1].tld_components = NoTld
    /\ domains = {Dot(La, La)}

\* C3 as stated: a query value that parses as a URL with a host is treated
\* as the primary host is: the raw embedded host in subdomain mode, otherwise
\* domain.suffix when the classification has both and the raw embedded host
\* when it has not, so that the value always contributes exactly one string.
C3_EmbeddedHostAsPrimary ==
    Formatted =>
        \A v \in BatchValues :
            LET u == UrlParse(v) IN
            (u.ok /\ u.host.some) =>
                LET e == PrimaryExpected(u.host.v, extract(u.host.v),
                                         include_subdomains)
                IN  QueryDomains(v, include_subdomains) = {e} /\ e \in domains

\* C4 as stated: outside subdomain mode, a value that yields no host (it does
\* not parse as a URL, or parses as a URL without a host), contains "." and
\* does not begin with "%" is classified whole, and domain.suffix is inserted
\* if and only if the classification has both.
C4_BareValueAsStated ==
    (Formatted /\ ~include_subdomains) =>
        \A v \in BatchValues :
            (~(UrlParse(v).ok /\ UrlParse(v).host.some)
             /\ Contains(v, ".") /\ ~StartsWith(v, "%")) =>
                /\ QueryDomains(v, FALSE) = Registrable(extract(v))
                /\ Registrable(extract(v)) \subseteq domains

\* C4 amended: outside subdomain mode, a value that does not parse as a URL,
\* contains "." and does not begin with "%" is classified whole, and
\* domain.suffix is inserted if and only if the classification has both; a
\* value that parses as a URL without a host contributes nothing.
C4_BareValue ==
    (Formatted /\ ~include_subdomains) =>
        \A v \in BatchValues :
            /\ BareCandidate(v) =>
                /\ QueryDomains(v, FALSE) = Registrable(extract(v))
                /\ Registrable(extract(v)) \subseteq domains
                /\ OnlyValue(v) => domains = Registrable(extract(v))
            /\ (UrlParse(v).ok /\ ~UrlParse(v).host.some) =>
                /\ QueryDomains(v, FALSE) = {}
                /\ OnlyValue(v) => domains = {}

\* Outside subdomain mode the value a.a.uk gave a.uk.
C4_Witness ==
    /\ Formatted /\ ~include_subdomains
    /\ OnlyValue(Dot(La, Dot(La, Luk)))
    /\ domains = {Dot(La, Luk)}

\* C5: in subdomain mode a value handled by the bare-hostname branch
\* contributes subdomain.domain.suffix when its classification has the three,
\* domain.suffix when it has only domain and suffix, and nothing otherwise:
\* the value itself is never inserted unclassified.
C5_BareValueSubdomains ==
    (Formatted /\ include_subdomains) =>
        \A v \in BatchValues :
            BareCandidate(v) =>
                LET t == extract(v)
                    e == IF t.subdomain.some /\ t.domain.some /\ t.suffix.some
                         THEN {Dot(t.subdomain.v, Dot(t.domain.v, t.suffix.v))}
                         ELSE IF t.domain.some /\ t.suffix.some
                              THEN {Dot(t.domain.v, t.suffix.v)}
                         ELSE {}
                IN  /\ QueryDomains(v, TRUE) = e
                    /\ e \subseteq domains
                    /\ OnlyValue(v) => domains = e

\* In subdomain mode the value a.a.uk gave a.a.uk.
C5_Witness ==
    /\ Formatted /\ include_subdomains
    /\ OnlyValue(Dot(La, Dot(La, Luk)))
    /\ domains = {Dot(La, Dot(La, Luk))}

\* C6: a path segment without "." or beginning with "%" contributes nothing;
\* any other segment is inserted as it is in subdomain mode, and outside it
\* is classified, domain.suffix being inserted only if both are present.
C6_PathSegment ==
    Formatted =>
        \A g \in BatchSegments :
            LET e == IF ~Contains(g, ".") \/ StartsWith(g, "%") THEN {}
                     ELSE IF include_subdomains THEN {g}
                     ELSE Registrable(extract(g))
            IN  /\ SegmentDomains(g, include_subdomains) = e
                /\ e \subseteq domains
                /\ OnlySegment(g) => domains = e

\* In subdomain mode the segment a.a, which has no registered suffix, gave a.a.
C6_Witness ==
    /\ Formatted /\ include_subdomains
    /\ OnlySegment(Dot(La, La))
    /\ domains = {Dot(La, La)}

\* C7 as stated: in both modes, a string that contains ".", does not begin
\* with "%" and is not a parseable URL contributes the same set as a path
\* segment and as a query value.
C7_SegmentAsValue ==
    Formatted =>
        \A g \in BatchSegments :
            BareCandidate(g) =>
                SegmentDomains(g, include_subdomains)
                    = QueryDomains(g, include_subdomains)

\* C7 amended: outside subdomain mode, a string that contains ".", does not
\* begin with "%" and is not a parseable URL contributes the same set as a
\* path segment and as a query value; in subdomain mode the segment
\* contributes the string itself, classified or not, and the query value
\* contributes nothing when the classification has no domain and suffix.
C7_SegmentAsValueOutsideSubdomains ==
    Formatted =>
        \A g \in BatchSegments :
            BareCandidate(g) =>
                IF include_subdomains
                THEN /\ SegmentDomains(g, TRUE) = {g}
                     /\ Registrable(extract(g)) = {} => QueryDomains(g, TRUE) = {}
                ELSE SegmentDomains(g, FALSE) = QueryDomains(g, FALSE)

\* Outside subdomain mode the segment a.a.uk gave a.uk, as the value a.a.uk
\* does.
C7_Witness ==
    /\ Formatted /\ ~include_subdomains
    /\ OnlySegment(Dot(La, Dot(La, Luk)))
    /\ domains = QueryDomains(Dot(La, Dot(La, Luk)), FALSE)
    /\ domains = {Dot(La, Luk)}

\* C8: a query value beginning with "%" is never a bare-hostname candidate,
\* even with a "." in it: in both modes it contributes nothing.
C8_PercentGuard ==
    Formatted =>
        \A v \in BatchValues :
            StartsWith(v, "%") =>
                /\ QueryDomains(v, include_subdomains) = {}
                /\ OnlyValue(v) => domains = {}

\* The only fragment was the value %a.uk and nothing was inserted.
C8_Witness ==
    /\ Formatted
    /\ OnlyValue(Pct(Dot(La, Luk)))
    /\ domains = {}

C13_FormatNeverFails ==
    /\ phase # "failed"
    /\ \A r \in format(analyses, include_subdomains) : r.ok

\* format returned Ok for a batch with a URL without host, a value that is
\* no URL, a value beginning with "%" and a dotted segment that contributes
\* nothing.
C13_Witness ==
    /\ Formatted /\ ~include_subdomains
    /\ \E k \in 1..Len(analyses) : ~analyses[k].url_components.host.some
    /\ \E v \in BatchValues : ~UrlParse(v).ok /\ ~StartsWith(v, "%")
    /\ \E v \in BatchValues : StartsWith(v, "%")
    /\ \E g \in BatchSegments : Contains(g, ".") /\ SegmentDomains(g, FALSE) = {}

\* s without its element at position j.
RemoveAt(s, j) == [i \in 1..(Len(s) - 1) |-> IF i < j THEN s[i] ELSE s[i + 1]]
WithoutValue(a, j) == [a EXCEPT !.url_components.query_params = RemoveAt(@, j)]
WithoutSegment(a, j) == [a EXCEPT !.url_components.path_segments = RemoveAt(@, j)]
OutputLines == {Lines(output)[i] : i \in 1..Len(Lines(output))}

\* C14: harvesting is monotone: what the batch gives without one of its
\* analyses, and what an analysis gives without one of its query parameters
\* or path segments, is still given with it, and is in the output of format.
C14_Monotone ==
    LET sub == include_subdomains
        all == IF Formatted THEN domains \cap OutputLines
               ELSE Harvest(analyses, sub)
    IN  \A k \in 1..Len(analyses) :
            LET a == analyses[k]
                here == IF Formatted THEN all ELSE AnalysisDomains(a, sub)
            IN  /\ Harvest(RemoveAt(analyses, k), sub) \subseteq all
                /\ \A j \in 1..Len(a.url_components.query_params) :
                       AnalysisDomains(WithoutValue(a, j), sub) \subseteq here
                /\ \A j \in 1..Len(a.url_components.path_segments) :
                       AnalysisDomains(WithoutSegment(a, j), sub) \subseteq here

\* format has returned for a batch of two analyses, the second with a value
\* that is neither a URL nor a hostname next to one that is a hostname, and
\* the strings of the first analysis and of the hostname are in the output.
C14_Witness ==
    /\ Formatted /\ Len(analyses) = 2
    /\ analyses[1].url_components.host = Some(Dot(Lz, Luk))
    /\ analyses[2].url_components.query_params
           = <<<<Key, Lz>>, <<Key, Dot(Lz, Luk)>>>>
    /\ QueryDomains(Lz, include_subdomains) = {}
    /\ {Dot(Lz, Luk), Dot(La, Dot(Lco, Luk))} \subseteq OutputLines

\* The number of lines of the output that are the string d.
LineCount(d) == Cardinality({i \in 1..Len(Lines(output)) : Lines(output)[i] = d})

\* C15: harvesting is idempotent under duplication: in either mode format of
\* the batch with one of its analyses repeated, or with all of them repeated,
\* returns what format of the batch returns, and in non-subdomain mode the
\* registrable domain of hosts that share it is on exactly one line.
C15_Idempotent ==
    LET sub == include_subdomains IN
    /\ \A k \in 1..Len(analyses) :
           format(Append(analyses, analyses[k]), sub) = format(analyses, sub)
    /\ format(analyses \o analyses, sub) = format(analyses, sub)
    /\ Formatted =>
           /\ [ok |-> TRUE, text |-> output] \in format(analyses \o analyses, sub)
           /\ ~sub => \A k \in 1..Len(analyses) :
                  LET t == analyses[k].tld_components IN
                  (t.domain.some /\ t.suffix.some)
                      => LineCount(Dot(t.domain.v, t.suffix.v)) = 1

\* format has returned in non-subdomain mode for two different analyses whose
\* hosts z.uk and a.z.uk have the registrable domain z.uk, which is on one
\* line of the output.
C15_Witness ==
    /\ Formatted /\ ~include_subdomains /\ Len(analyses) = 2
    /\ analyses[1].url_components.host = Some(Dot(Lz, Luk))
    /\ analyses[2].url_components.host = Some(Dot(La, Dot(Lz, Luk)))
    /\ \A k \in 1..2 :
           /\ analyses[k].tld_components.domain = Some(Lz)
           /\ analyses[k].tld_components.suffix = Some(Luk)
    /\ LineCount(Dot(Lz, Luk)) = 1

\* The batch in every order.
Permutations(s) ==
    {[i \in 1..Len(s) |-> s[f[i]]] :
        f \in {g \in [1..Len(s) -> 1..Len(s)] :
                  \A i, j \in 1..Len(s) : g[i] = g[j] => i = j}}

\* The lines of the text format returns for one analysis alone.
AloneLines(a, sub) ==
    UNION {{Lines(r.text)[i] : i \in 1..Len(Lines(r.text))} : r \in format_one(a, sub)}

\* C16: harvesting has no ordering dependency between analyses: when one
\* worker per analysis makes the insertions of the loop body into one set,
\* in any interleaving, the sorted output is the output of format over the
\* batch, in its order and in every other order, and its lines are the
\* union of the lines format gives for each analysis alone.
C16_OrderIndependent ==
    LET sub == include_subdomains IN
    /\ phase = "harvesting" =>
           domains = UNION {{AnalysisInsertions(analyses[k], sub)[i] :
                                i \in 1..inserted[k]} : k \in 1..Len(analyses)}
    /\ (Formatted /\ inserted # <<>>) =>
           /\ \A b \in Permutations(analyses) : format(b, sub) = {FormatOk(output)}
           /\ OutputLines = UNION {AloneLines(analyses[k], sub) : k \in 1..Len(analyses)}
           /\ \A k \in 1..(Len(Lines(output)) - 1) :
                  Less(Lines(output)[k], Lines(output)[k + 1])

\* The workers of two different analyses with two insertions or more each,
\* one string in common and others not, are done and the output is made.
C16_Witness ==
    /\ Formatted /\ Len(analyses) = 2 /\ Len(inserted) = 2
    /\ inserted[1] >= 2 /\ inserted[2] >= 2
    /\ AloneLines(analyses[1], include_subdomains)
           \cap AloneLines(analyses[2], include_subdomains) # {}
    /\ AloneLines(analyses[1], include_subdomains)
           \ AloneLines(analyses[2], include_subdomains) # {}
    /\ AloneLines(analyses[2], include_subdomains)
           \ AloneLines(analyses[1], include_subdomains) # {}

\* C17: analyze_urls returns one result per URL in the order of the URLs;
\* the result at a position is what analyze_url returns for the URL at that
\* position alone: Err for an invalid URL, whatever the other URLs are.
C17_OneResultPerUrl ==
    /\ Len(results) = Len(urls)
    /\ \A k \in 1..Len(urls) :
           /\ k \in DOMAIN results
           /\ results[k] = analyze_url(urls[k])
           /\ results[k] = analyze_urls(<<urls[k]>>)[1]
           /\ ~urls[k].valid => ~results[k].ok

\* analyze_urls has returned for an invalid URL between two valid ones: Err
\* in the middle, the analyses of the two hosts around it.
C17_Witness ==
    /\ Len(urls) = 3 /\ Len(results) = 3
    /\ urls[1].valid /\ ~urls[2].valid /\ urls[3].valid
    /\ results[1].ok /\ ~results[2].ok /\ results[3].ok
    /\ results[1].analysis.url_components.host = Some(Dot(Lz, Luk))
    /\ results[3].analysis.url_components.host = Some(Dot(La, Luk))

\* No label of s is empty: s is not empty, has no leading ".", no trailing
\* "." and no "..".
NoEmptyLabel(s) ==
    /\ s # <<>> /\ s[1] # "." /\ s[Len(s)] # "."
    /\ \A i \in 1..(Len(s) - 1) : ~(s[i] = "." /\ s[i + 1] = ".")

\* No field of the classification is a present empty string.
NoEmptyField(t) ==
    /\ t.domain # Some(<<>>) /\ t.subdomain # Some(<<>>) /\ t.suffix # Some(<<>>)

\* The strings the harvester takes its insertions from: the host, the host
\* of a value that is a URL, the value that is not, the path segments.
SourceStrings ==
    {analyses[k].url_components.host.v :
        k \in {j \in 1..Len(analyses) : analyses[j].url_components.host.some}}
    \cup {IF UrlParse(v).ok /\ UrlParse(v).host.some THEN UrlParse(v).host.v ELSE v :
             v \in BatchValues}
    \cup BatchSegments

\* The classifications the harvester reads: of the host, and of every value
\* and segment it hands to extract.
ClassificationsRead ==
    {analyses[k].tld_components : k \in 1..Len(analyses)}
    \cup {extract(x) : x \in SourceStrings}

\* C18 as stated: no field of a classification is a present empty string,
\* and no string inserted by the harvester has an empty label.
C18_NoEmptyLabelAsStated ==
    /\ \A t \in ClassificationsRead : NoEmptyField(t)
    /\ Formatted => \A d \in domains : NoEmptyLabel(d)

\* C18: no field of a classification is a present empty string, so every
\* join of the harvester is of non-empty fields: an inserted string has an
\* empty label only when the host, value or segment it is taken from has
\* one, and a bare value with nothing left of its domain inserts
\* domain.suffix without a leading ".".
C18_NoEmptyField ==
    /\ \A t \in ClassificationsRead : NoEmptyField(t)
    /\ tld.some => NoEmptyField(tld.v)
    /\ Formatted =>
           /\ \A d \in domains :
                  NoEmptyLabel(d) \/ \E x \in SourceStrings : ~NoEmptyLabel(x)
           /\ \A v \in BatchValues :
                  (OnlyValue(v) /\ BareCandidate(v)) =>
                      \A d \in domains : d[1] # "."

\* In subdomain mode the value .a.uk, whose subdomain the extractor gives as
\* the empty string, gave a.uk.
C18_Witness ==
    /\ Formatted /\ include_subdomains
    /\ OnlyValue(Dot(<<>>, Dot(La, Luk)))
    /\ TldExtractor_extract(Dot(<<>>, Dot(La, Luk))).subdomain = Some(<<>>)
    /\ domains = {Dot(La, Luk)}

\* The analysis a as analyze gives it for the same URL with the host h.
WithHost(a, h) ==
    [a EXCEPT !.url_components.host = Some(h),
              !.tld_components = [domain |-> extract(h).domain,
                                  subdomain |-> extract(h).subdomain,
                                  suffix |-> extract(h).suffix]]

\* What the query values and the path segments of a give.
FragmentDomains(a, sub) ==
    UNION {QueryDomains(a.url_components.query_params[j][2], sub) :
              j \in 1..Len(a.url_components.query_params)}
    \cup UNION {SegmentDomains(a.url_components.path_segments[j], sub) :
                   j \in 1..Len(a.url_components.path_segments)}

\* C19: an analysis without a host has all-absent tld_components and gives
\* no string for the host in either mode; its query values and path segments
\* give what they give in an analysis with a host.
C19_HostAbsent ==
    \A k \in 1..Len(analyses) :
        LET a == analyses[k] IN
        ~a.url_components.host.some =>
            /\ a.tld_components = NoTld
            /\ \A sub \in BOOLEAN :
                   /\ HostDomains(a, sub) = {}
                   /\ AnalysisDomains(a, sub) = FragmentDomains(a, sub)
                   /\ \A h \in Shapes :
                          AnalysisDomains(WithHost(a, h), sub)
                              = HostDomains(WithHost(a, h), sub)
                                \cup AnalysisDomains(a, sub)
            /\ Formatted => domains = FragmentDomains(a, include_subdomains)

\* In subdomain mode the analysis without a host whose path has the segment
\* a.co.uk gave a.co.uk.
C19_Witness ==
    /\ Formatted /\ include_subdomains
    /\ OnlySegment(Dot(La, Dot(Lco, Luk)))
    /\ analyses[1].tld_components = NoTld
    /\ domains = {Dot(La, Dot(Lco, Luk))}

\* The present fields subdomain, domain, suffix joined with ".".
Rejoin(t) ==
    IF t.subdomain.some THEN Dot(t.subdomain.v, Dot(t.domain.v, t.suffix.v))
    ELSE Dot(t.domain.v, t.suffix.v)

\* extract gives the string a domain and a suffix.
Classifies(x) == extract(x).domain.some /\ extract(x).suffix.some

\* The string is "." followed by its domain and suffix: the only label left
\* of the domain is empty.
LeadingDot(x) ==
    Classifies(x) /\ x = Dot(<<>>, Dot(extract(x).domain.v, extract(x).suffix.v))

====
